---- MODULE Spec2Model ----
(***************************************************************************)
(* Model of the platinum RTD conversion library (platinum_rtd_sensor.c):   *)
(* RTD_CalculateResistance (Callendar-Van Dusen, temperature -> ohms) and  *)
(* RTD_CalculateTemperature (Newton-Raphson, ohms -> temperature).         *)
(*                                                                         *)
(* The C type double is modelled as a decimal floating-point number with   *)
(* Precision significant digits, round-to-nearest-even after every         *)
(* operation, a bounded exponent, and the IEEE special values +-inf, NaN.  *)
(* A significand is a sequence of decimal digits, least significant first. *)
(***************************************************************************)
EXTENDS Integers, Sequences, FiniteSets, TLC

\* Significant decimal digits of a double (53 bits are about 16 digits).
Precision == 16
\* Largest decimal exponent of a finite double (about 1.8e308).
MaxExp == 308

(***************************************************************************)
(* Natural numbers as digit sequences (least significant digit first, no   *)
(* high zero digit; zero is the empty sequence).                           *)
(***************************************************************************)
MaxOf(S) == CHOOSE x \in S : \A y \in S : y <= x

Zeros(n) == [i \in 1..n |-> 0]

Dig(a, i) == IF i <= Len(a) THEN a[i] ELSE 0

Strip(a) ==
    LET nz == {i \in 1..Len(a) : a[i] # 0}
    IN  IF nz = {} THEN <<>> ELSE SubSeq(a, 1, MaxOf(nz))

\* The digits of the number whose cells c (any integers) weigh 10^(i-1);
\* acc holds the digits already settled, carry what they pass on.
RECURSIVE Carry(_, _, _)
Carry(c, carry, acc) ==
    IF Len(acc) >= Len(c)
    THEN IF carry = 0 THEN acc
         ELSE Carry(c \o <<0>>, carry, acc)
    ELSE LET v == c[Len(acc) + 1] + carry
         IN  Carry(c, v \div 10, Append(acc, v % 10))

NAdd(a, b) ==
    LET n == IF Len(a) > Len(b) THEN Len(a) ELSE Len(b)
    IN  Carry([i \in 1..n |-> Dig(a, i) + Dig(b, i)], 0, <<>>)

\* a - b for a >= b
NSub(a, b) ==
    Strip(Carry([i \in 1..Len(a) |-> a[i] - Dig(b, i)], 0, <<>>))

NCmp(a, b) ==
    IF Len(a) # Len(b) THEN (IF Len(a) < Len(b) THEN -1 ELSE 1)
    ELSE LET diff == {i \in 1..Len(a) : a[i] # b[i]}
         IN  IF diff = {} THEN 0
             ELSE LET j == MaxOf(diff) IN IF a[j] < b[j] THEN -1 ELSE 1

RECURSIVE ConvCell(_, _, _, _, _)
ConvCell(a, b, k, i, hi) ==
    IF i > hi THEN 0 ELSE a[i] * b[k + 1 - i] + ConvCell(a, b, k, i + 1, hi)

NMul(a, b) ==
    IF a = <<>> \/ b = <<>> THEN <<>>
    ELSE LET la == Len(a)
             lb == Len(b)
             cell(k) == ConvCell(a, b, k,
                                 IF k + 1 - lb > 1 THEN k + 1 - lb ELSE 1,
                                 IF k < la THEN k ELSE la)
         IN  Carry([k \in 1..(la + lb - 1) |-> cell(k)], 0, <<>>)

NMulDigit(a, d) ==
    IF d = 0 THEN <<>> ELSE Carry([i \in 1..Len(a) |-> a[i] * d], 0, <<>>)

\* Long division, most significant digit first: q holds the quotient digits
\* found so far and rem the running remainder (den # 0).
RECURSIVE NDivRec(_, _, _, _)
NDivRec(num, den, rem, q) ==
    IF Len(q) >= Len(num) THEN [q |-> Strip(q), r |-> rem]
    ELSE LET cur == Strip(<<num[Len(num) - Len(q)]>> \o rem)
             d   == CHOOSE x \in 0..9 :
                        /\ NCmp(NMulDigit(den, x), cur) <= 0
                        /\ x = 9 \/ NCmp(NMulDigit(den, x + 1), cur) > 0
         IN  NDivRec(num, den, NSub(cur, NMulDigit(den, d)), <<d>> \o q)

NDivMod(num, den) == NDivRec(num, den, <<>>, <<>>)

(***************************************************************************)
(* double: [k, s, m, e] is s * m * 10^e for k = "fin", with m of exactly   *)
(* Precision digits (or empty for zero); k = "inf" is s * infinity and     *)
(* k = "nan" is NaN.  Zero carries no sign.                                *)
(***************************************************************************)
NaN == [k |-> "nan", s |-> 1, m |-> <<>>, e |-> 0]

Inf(s) == [k |-> "inf", s |-> s, m |-> <<>>, e |-> 0]

Zero == [k |-> "fin", s |-> 1, m |-> <<>>, e |-> 0]

\* Overflow gives infinity, underflow flushes to zero.
Fin(s, m, e) ==
    IF e + Precision - 1 > MaxExp THEN Inf(s)
    ELSE IF e + Precision - 1 < -MaxExp THEN Zero
    ELSE [k |-> "fin", s |-> s, m |-> m, e |-> e]

\* s * n * 10^e rounded to Precision digits, ties to even; sticky says that
\* a nonzero part below n was already discarded.
Round(s, n, e, sticky) ==
    IF n = <<>> THEN Zero
    ELSE LET L    == Len(n)
             drop == L - Precision
         IN  IF drop <= 0 THEN Fin(s, Zeros(-drop) \o n, e + drop)
             ELSE LET kept  == SubSeq(n, drop + 1, L)
                      guard == n[drop]
                      rest  == sticky \/ \E i \in 1..(drop - 1) : n[i] # 0
                      up    == guard > 5 \/ (guard = 5 /\ (rest \/ kept[1] % 2 = 1))
                      inc   == IF up THEN NAdd(kept, <<1>>) ELSE kept
                  IN  IF Len(inc) > Precision
                      THEN Fin(s, SubSeq(inc, 2, Precision + 1), e + drop + 1)
                      ELSE Fin(s, inc, e + drop)

RECURSIVE NatDigits(_)
NatDigits(n) == IF n = 0 THEN <<>> ELSE <<n % 10>> \o NatDigits(n \div 10)

\* The double nearest to n * 10^e, for a C literal or an integer operand.
Dec(n, e) == Round(IF n < 0 THEN -1 ELSE 1, NatDigits(IF n < 0 THEN -n ELSE n), e, FALSE)

\* A literal with more digits than an integer holds: hi * 10^9 + lo, times 10^e.
DecLong(hi, lo, e) ==
    LET h == IF hi < 0 THEN -hi ELSE hi
    IN  Round(IF hi < 0 THEN -1 ELSE 1,
              NAdd(Zeros(9) \o NatDigits(h), NatDigits(lo)), e, FALSE)

IsNaN(x) == x.k = "nan"
IsInf(x) == x.k = "inf"
IsFinite(x) == x.k = "fin"
IsZero(x) == x.k = "fin" /\ x.m = <<>>

FNeg(x) == IF IsNaN(x) \/ IsZero(x) THEN x ELSE [x EXCEPT !.s = -x.s]

fabs(x) == IF IsNaN(x) THEN x ELSE [x EXCEPT !.s = 1]

\* -1, 0, 1 as x is below, equal to, above y; neither is NaN.
FCmp(x, y) ==
    LET sx == IF IsZero(x) THEN 0 ELSE x.s
        sy == IF IsZero(y) THEN 0 ELSE y.s
        mag == IF IsInf(x) /\ IsInf(y) THEN 0
               ELSE IF IsInf(x) THEN 1
               ELSE IF IsInf(y) THEN -1
               ELSE IF x.e # y.e THEN (IF x.e < y.e THEN -1 ELSE 1)
               ELSE NCmp(x.m, y.m)
    IN  IF sx # sy THEN (IF sx < sy THEN -1 ELSE 1)
        ELSE IF sx = 0 THEN 0
        ELSE sx * mag

FLt(x, y) == ~IsNaN(x) /\ ~IsNaN(y) /\ FCmp(x, y) < 0
FGt(x, y) == ~IsNaN(x) /\ ~IsNaN(y) /\ FCmp(x, y) > 0
FGe(x, y) == ~IsNaN(x) /\ ~IsNaN(y) /\ FCmp(x, y) >= 0
FLe(x, y) == ~IsNaN(x) /\ ~IsNaN(y) /\ FCmp(x, y) <= 0
FEq(x, y) == ~IsNaN(x) /\ ~IsNaN(y) /\ FCmp(x, y) = 0

\* x + y for finite nonzero x, y with x.e >= y.e
AddAligned(x, y) ==
    LET d  == x.e - y.e
        xm == Zeros(d) \o x.m
    IN  IF d > Precision + 1 THEN x
        ELSE IF x.s = y.s THEN Round(x.s, NAdd(xm, y.m), y.e, FALSE)
        ELSE LET c == NCmp(xm, y.m)
             IN  IF c = 0 THEN Zero
                 ELSE IF c > 0 THEN Round(x.s, NSub(xm, y.m), y.e, FALSE)
                 ELSE Round(y.s, NSub(y.m, xm), y.e, FALSE)

FAdd(x, y) ==
    IF IsNaN(x) \/ IsNaN(y) THEN NaN
    ELSE IF IsInf(x) THEN (IF IsInf(y) /\ x.s # y.s THEN NaN ELSE x)
    ELSE IF IsInf(y) THEN y
    ELSE IF IsZero(x) THEN y
    ELSE IF IsZero(y) THEN x
    ELSE IF x.e >= y.e THEN AddAligned(x, y) ELSE AddAligned(y, x)

FSub(x, y) == FAdd(x, FNeg(y))

FMul(x, y) ==
    IF IsNaN(x) \/ IsNaN(y) THEN NaN
    ELSE IF IsInf(x) \/ IsInf(y)
         THEN (IF IsZero(x) \/ IsZero(y) THEN NaN ELSE Inf(x.s * y.s))
    ELSE IF IsZero(x) \/ IsZero(y) THEN Zero
    ELSE Round(x.s * y.s, NMul(x.m, y.m), x.e + y.e, FALSE)

FDiv(x, y) ==
    IF IsNaN(x) \/ IsNaN(y) THEN NaN
    ELSE IF IsInf(x) THEN (IF IsInf(y) THEN NaN ELSE Inf(x.s * y.s))
    ELSE IF IsInf(y) THEN Zero
    ELSE IF IsZero(y) THEN (IF IsZero(x) THEN NaN ELSE Inf(x.s))
    ELSE IF IsZero(x) THEN Zero
    ELSE LET qr == NDivMod(Zeros(Precision + 1) \o x.m, y.m)
         IN  Round(x.s * y.s, qr.q, x.e - y.e - (Precision + 1), qr.r # <<>>)

(***************************************************************************)
(* platinum_rtd_sensor.h: coefficients, sensor types, failure value.       *)
(***************************************************************************)
RTD_A_COEFFICIENT == DecLong(3, 908302087, -12)
\* Mutation: the sign of B is lost.
RTD_B_COEFFICIENT_Positive == Dec(5775, -10)

RTD_B_COEFFICIENT == Dec(-5775, -10)
RTD_C_COEFFICIENT == Dec(-418301, -17)

RTD_SENSOR_PT50 == 50
RTD_SENSOR_PT100 == 100
RTD_SENSOR_PT200 == 200
RTD_SENSOR_PT500 == 500
RTD_SENSOR_PT1000 == 1000

RTD_CONVERSION_FAILED == Dec(-1, 6)

max_iterations == 1000
\* Mutation: 1e8 is written for 1e-8.
tolerance_Loose == Dec(1, 8)

tolerance == Dec(1, -8)

(***************************************************************************)
(* RTD_CalculateResistance                                                 *)
(***************************************************************************)
\* Mutation: the range test uses <= and >=, so it rejects the two bounds.
TemperatureOutOfRange_Closed(temperature) ==
    FLe(temperature, Dec(-2005, -1)) \/ FGe(temperature, Dec(8505, -1))

\* if ( (temperature < -200.5) || (temperature > 850.5) )
TemperatureOutOfRange(temperature) ==
    FLt(temperature, Dec(-2005, -1)) \/ FGt(temperature, Dec(8505, -1))

\* Mutation: the PT50 case assigns the PT500 reference resistance.
ResistanceAtZero_Swapped(sensor_type) ==
    CASE sensor_type = RTD_SENSOR_PT50   -> Dec(500, 0)
      [] sensor_type = RTD_SENSOR_PT100  -> Dec(100, 0)
      [] sensor_type = RTD_SENSOR_PT200  -> Dec(200, 0)
      [] sensor_type = RTD_SENSOR_PT500  -> Dec(500, 0)
      [] sensor_type = RTD_SENSOR_PT1000 -> Dec(1000, 0)
      [] OTHER -> Zero

\* switch (sensor_type): the reference resistance, 0.0 in the default case
ResistanceAtZero(sensor_type) ==
    CASE sensor_type = RTD_SENSOR_PT50   -> Dec(50, 0)
      [] sensor_type = RTD_SENSOR_PT100  -> Dec(100, 0)
      [] sensor_type = RTD_SENSOR_PT200  -> Dec(200, 0)
      [] sensor_type = RTD_SENSOR_PT500  -> Dec(500, 0)
      [] sensor_type = RTD_SENSOR_PT1000 -> Dec(1000, 0)
      [] OTHER -> Zero

\* The locals after the Callendar-Van Dusen evaluation (the else branch of
\* if (!resistance_at_zero)).
CallendarVanDusen(l, temperature) ==
    LET r0  == l.resistance_at_zero
        tsq == FMul(temperature, temperature)
        lin == FAdd(FAdd(Dec(1, 0), FMul(RTD_A_COEFFICIENT, temperature)),
                    FMul(RTD_B_COEFFICIENT, tsq))
    IN  IF FGe(temperature, Zero)
        THEN [l EXCEPT !.temp_squared = tsq, !.resistance = FMul(r0, lin)]
        ELSE LET tcu == FMul(tsq, temperature)
                 cub == FMul(FMul(RTD_C_COEFFICIENT,
                                  FSub(temperature, Dec(100, 0))), tcu)
             IN  [l EXCEPT !.temp_squared = tsq, !.temp_cubed = tcu,
                           !.resistance = FMul(r0, FAdd(lin, cub))]

\* The locals at the return statement, from the locals at entry.
ResistanceBody(l, sensor_type, temperature) ==
    IF TemperatureOutOfRange(temperature)
    THEN [l EXCEPT !.resistance = RTD_CONVERSION_FAILED]
    ELSE LET l1 == [l EXCEPT !.resistance_at_zero = ResistanceAtZero(sensor_type)]
         IN  IF IsZero(l1.resistance_at_zero)
             THEN [l1 EXCEPT !.resistance = RTD_CONVERSION_FAILED]
             ELSE CallendarVanDusen(l1, temperature)

(***************************************************************************)
(* RTD_CalculateTemperature                                                *)
(***************************************************************************)
\* Mutation: one band, that of PT100, is tested for every recognized class.
BandRejects_Universal(sensor_type, resistance) ==
    IF sensor_type \in {RTD_SENSOR_PT50, RTD_SENSOR_PT100, RTD_SENSOR_PT200,
                        RTD_SENSOR_PT500, RTD_SENSOR_PT1000}
    THEN FLt(resistance, Dec(183, -1)) \/ FGt(resistance, Dec(3906, -1))
    ELSE TRUE

\* The valid resistance band tested in each case of switch (sensor_type);
\* the default case fails whatever the resistance.
BandRejects(sensor_type, resistance) ==
    CASE sensor_type = RTD_SENSOR_PT50 ->
            FLt(resistance, Dec(92, -1)) \/ FGt(resistance, Dec(1953, -1))
      [] sensor_type = RTD_SENSOR_PT100 ->
            FLt(resistance, Dec(183, -1)) \/ FGt(resistance, Dec(3906, -1))
      [] sensor_type = RTD_SENSOR_PT200 ->
            FLt(resistance, Dec(365, -1)) \/ FGt(resistance, Dec(7813, -1))
      [] sensor_type = RTD_SENSOR_PT500 ->
            FLt(resistance, Dec(915, -1)) \/ FGt(resistance, Dec(19530, -1))
      [] sensor_type = RTD_SENSOR_PT1000 ->
            FLt(resistance, Dec(1825, -1)) \/ FGt(resistance, Dec(39065, -1))
      [] OTHER -> TRUE

\* The locals after switch (sensor_type).
ValidateBody(l, sensor_type, resistance) ==
    [l EXCEPT !.resistance_at_zero = ResistanceAtZero(sensor_type),
              !.temperature = IF BandRejects(sensor_type, resistance)
                              THEN RTD_CONVERSION_FAILED ELSE l.temperature]

\* derivative_value in the branch temperature_estimate >= 0.0
DerivativeNonNegative(r0, t) ==
    FMul(r0, FAdd(RTD_A_COEFFICIENT,
                  FMul(FMul(Dec(2, 0), RTD_B_COEFFICIENT), t)))

\* derivative_value in the branch temperature_estimate < 0.0
DerivativeNegative(r0, t, tsq) ==
    FMul(r0,
         FAdd(FSub(FAdd(FAdd(RTD_A_COEFFICIENT,
                             FMul(FMul(Dec(2, 0), RTD_B_COEFFICIENT), t)),
                        FMul(FMul(Dec(3, 0), RTD_C_COEFFICIENT), tsq)),
                   FMul(FMul(Dec(200, 0), RTD_C_COEFFICIENT), t)),
              FMul(FMul(Dec(300, 0), RTD_C_COEFFICIENT), tsq)))

\* One pass of the loop body up to the assignment of new_temperature_estimate.
NewtonStep(l, resistance) ==
    LET r0 == l.resistance_at_zero
        t  == l.temperature_estimate
    IN  IF FGe(t, Zero)
        THEN LET f == FSub(FMul(r0,
                            FAdd(FAdd(Dec(1, 0), FMul(RTD_A_COEFFICIENT, t)),
                                 FMul(FMul(RTD_B_COEFFICIENT, t), t))),
                           resistance)
                 d == DerivativeNonNegative(r0, t)
             IN  [l EXCEPT !.function_value = f, !.derivative_value = d,
                           !.new_temperature_estimate = FSub(t, FDiv(f, d))]
        ELSE LET tsq == FMul(t, t)
                 tcu == FMul(tsq, t)
                 f == FSub(FMul(r0,
                            FAdd(FAdd(FAdd(Dec(1, 0), FMul(RTD_A_COEFFICIENT, t)),
                                      FMul(RTD_B_COEFFICIENT, tsq)),
                                 FMul(FMul(RTD_C_COEFFICIENT,
                                           FSub(t, Dec(100, 0))), tcu))),
                           resistance)
                 d == DerivativeNegative(r0, t, tsq)
             IN  [l EXCEPT !.temp_squared = tsq, !.temp_cubed = tcu,
                           !.function_value = f, !.derivative_value = d,
                           !.new_temperature_estimate = FSub(t, FDiv(f, d))]

\* if (fabs(new_temperature_estimate - temperature_estimate) < tolerance)
Converged(l) ==
    FLt(fabs(FSub(l.new_temperature_estimate, l.temperature_estimate)), tolerance)

\* Mutation: the loop condition is iteration <= max_iterations.
LoopGuard_Inclusive(l) == l.iteration <= max_iterations

\* while (iteration < max_iterations)
LoopGuard(l) == l.iteration < max_iterations

\* The rest of the loop body, from the locals NewtonStep leaves: break with
\* the result, or take the next estimate and count the iteration.
IterationEnd(l) ==
    IF Converged(l)
    THEN [l EXCEPT !.temperature = l.new_temperature_estimate]
    ELSE [l EXCEPT !.temperature_estimate = l.new_temperature_estimate,
                   !.iteration = l.iteration + 1]

\* The while loop run to its end, from the locals at its entry.
RECURSIVE NewtonLoop(_, _)
NewtonLoop(l, resistance) ==
    IF ~LoopGuard(l) THEN l
    ELSE LET l1 == NewtonStep(l, resistance)
         IN  IF Converged(l1) THEN IterationEnd(l1)
             ELSE NewtonLoop(IterationEnd(l1), resistance)

(***************************************************************************)
(* The calls.  A thread is a caller of the library; its arguments are in   *)
(* call, the locals of the function it runs are in loc, and ret is the     *)
(* value returned.  bodies counts the loop bodies the call has executed    *)
(* and origin remembers the temperature a round trip started from.         *)
(***************************************************************************)
VARIABLES pc, call, loc, ret, bodies, origin

vars == <<pc, call, loc, ret, bodies, origin>>

\* Number of concurrent callers in SpecConc.
NThreads == 2

\* Mutation: the locals are static, one copy shared by every invocation.
Slot_Static(t) == 1

\* Where the locals of thread t's call live: they are automatic variables,
\* so every invocation has its own.
Slot(t) == t

NoCall == [fn |-> "none"]

\* No call is active: nothing reads the locals before an entry sets them.
NoFrame ==
    [iteration |-> 0, resistance_at_zero |-> Zero, temperature_estimate |-> Zero,
     new_temperature_estimate |-> Zero, function_value |-> Zero,
     derivative_value |-> Zero, temp_squared |-> Zero, temp_cubed |-> Zero,
     temperature |-> Zero, resistance |-> Zero]

\* The locals of RTD_CalculateResistance as declared.
ResistanceLocals ==
    [iteration |-> 0, resistance_at_zero |-> Zero, temperature_estimate |-> Zero,
     new_temperature_estimate |-> Zero, function_value |-> Zero,
     derivative_value |-> Zero, temp_squared |-> Zero, temp_cubed |-> Zero,
     temperature |-> Zero, resistance |-> RTD_CONVERSION_FAILED]

\* The locals of RTD_CalculateTemperature as declared.
TemperatureLocals(initial_temperature_estimate) ==
    [iteration |-> 0, resistance_at_zero |-> Zero,
     temperature_estimate |-> initial_temperature_estimate,
     new_temperature_estimate |-> Zero, function_value |-> Zero,
     derivative_value |-> Zero, temp_squared |-> Zero, temp_cubed |-> Zero,
     temperature |-> Zero, resistance |-> Zero]

\* The value RTD_CalculateResistance returns when it runs alone.
RTD_CalculateResistance(sensor_type, temperature) ==
    ResistanceBody(ResistanceLocals, sensor_type, temperature).resistance

\* The value RTD_CalculateTemperature returns when it runs alone.
RTD_CalculateTemperature(sensor_type, resistance, initial_temperature_estimate) ==
    LET l == ValidateBody(TemperatureLocals(initial_temperature_estimate),
                          sensor_type, resistance)
    IN  IF IsZero(l.temperature) THEN NewtonLoop(l, resistance).temperature
        ELSE l.temperature

\* Arguments the callers pass, in tenths of a degree and tenths of an ohm.
SensorTypes ==
    {RTD_SENSOR_PT50, RTD_SENSOR_PT100, RTD_SENSOR_PT200, RTD_SENSOR_PT500,
     RTD_SENSOR_PT1000, 0, 9999}

ForwardTemperatures ==
    {-2006, -2005, -2000, -1500, -1000, -1, 0, 250, 1000, 4380, 6500, 8500,
     8505, 8506}

BandProbes ==
    {91, 92, 1953, 1954, 182, 183, 3906, 3907, 364, 365, 7813, 7814,
     914, 915, 19530, 19531, 1824, 1825, 39065, 39066}

\* Largest distance, in tenths of a degree, of a round trip's initial guess
\* from the temperature it started from.
MaxOffset == 10

GuessOffsets == {-MaxOffset, 0, MaxOffset}

\* Initial guesses, in tenths of a degree, tried with every band probe.
ProbeGuesses == {-1000, 250}

\* <<sensor_type, resistance, initial_temperature_estimate>>: the call of the
\* example program, and calls whose guess is far from the answer.
OtherInverseInputs ==
    {<<RTD_SENSOR_PT100, 2685, 250>>,
     <<RTD_SENSOR_PT100, 1000, 30000>>, <<RTD_SENSOR_PT100, 1000, 50000>>,
     <<RTD_SENSOR_PT100, 1000, -100000>>}

InverseInputs ==
    (SensorTypes \X BandProbes \X ProbeGuesses) \cup OtherInverseInputs

\* The calls concurrent callers make: <<sensor_type, temperature>> and
\* <<sensor_type, resistance, initial_temperature_estimate>>.
ConcForward == {<<RTD_SENSOR_PT500, 4380>>}

ConcInverse == {<<RTD_SENSOR_PT100, 2685, 4600>>, <<RTD_SENSOR_PT50, 91, 250>>}

Init ==
    /\ pc = [t \in {1} |-> "idle"]
    /\ call = [t \in {1} |-> NoCall]
    /\ loc = [t \in {1} |-> NoFrame]
    /\ ret = [t \in {1} |-> Zero]
    /\ bodies = [t \in {1} |-> 0]
    /\ origin = [t \in {1} |-> NaN]

InitConc ==
    /\ pc = [t \in 1..NThreads |-> "idle"]
    /\ call = [t \in 1..NThreads |-> NoCall]
    /\ loc = [t \in 1..NThreads |-> NoFrame]
    /\ ret = [t \in 1..NThreads |-> Zero]
    /\ bodies = [t \in 1..NThreads |-> 0]
    /\ origin = [t \in 1..NThreads |-> NaN]

\* Entry of RTD_CalculateResistance(sensor_type, temperature).
EnterResistance(t, sensor_type, temperature) ==
    /\ pc' = [pc EXCEPT ![t] = "resistance"]
    /\ call' = [call EXCEPT ![t] = [fn |-> "RTD_CalculateResistance",
                                    sensor_type |-> sensor_type,
                                    temperature |-> temperature]]
    /\ loc' = [loc EXCEPT ![Slot(t)] = ResistanceLocals]
    /\ bodies' = [bodies EXCEPT ![t] = 0]
    /\ UNCHANGED <<ret, origin>>

\* Entry of RTD_CalculateTemperature(sensor_type, resistance, guess).
EnterTemperature(t, sensor_type, resistance, guess, from) ==
    /\ pc' = [pc EXCEPT ![t] = "validate"]
    /\ call' = [call EXCEPT ![t] = [fn |-> "RTD_CalculateTemperature",
                                    sensor_type |-> sensor_type,
                                    resistance |-> resistance,
                                    initial_temperature_estimate |-> guess]]
    /\ loc' = [loc EXCEPT ![Slot(t)] = TemperatureLocals(guess)]
    /\ bodies' = [bodies EXCEPT ![t] = 0]
    /\ origin' = [origin EXCEPT ![t] = from]
    /\ UNCHANGED ret

CallResistance(t) ==
    /\ pc[t] = "idle"
    /\ \E st \in SensorTypes, temp \in ForwardTemperatures :
           EnterResistance(t, st, Dec(temp, -1))

CallTemperature(t) ==
    /\ pc[t] = "idle"
    /\ \E in \in InverseInputs :
           EnterTemperature(t, in[1], Dec(in[2], -1), Dec(in[3], -1), NaN)

\* The caller feeds a successful forward result back into the inverse
\* function, with an initial guess at or near the original temperature.
RoundTrip(t) ==
    /\ pc[t] = "done"
    /\ call[t].fn = "RTD_CalculateResistance"
    /\ ~FEq(ret[t], RTD_CONVERSION_FAILED)
    /\ \E off \in GuessOffsets :
           EnterTemperature(t, call[t].sensor_type, ret[t],
                            FAdd(call[t].temperature, Dec(off, -1)),
                            call[t].temperature)

CallConc(t) ==
    /\ pc[t] = "idle"
    /\ \/ \E in \in ConcForward : EnterResistance(t, in[1], Dec(in[2], -1))
       \/ \E in \in ConcInverse :
              EnterTemperature(t, in[1], Dec(in[2], -1), Dec(in[3], -1), NaN)

\* The body of RTD_CalculateResistance up to its return statement.
Resistance(t) ==
    /\ pc[t] = "resistance"
    /\ loc' = [loc EXCEPT ![Slot(t)] =
                  ResistanceBody(loc[Slot(t)], call[t].sensor_type,
                                 call[t].temperature)]
    /\ pc' = [pc EXCEPT ![t] = "return"]
    /\ UNCHANGED <<call, ret, bodies, origin>>

\* switch (sensor_type) and the test if (!temperature).
Validate(t) ==
    /\ pc[t] = "validate"
    /\ LET l == ValidateBody(loc[Slot(t)], call[t].sensor_type, call[t].resistance)
       IN  /\ loc' = [loc EXCEPT ![Slot(t)] = l]
           /\ pc' = [pc EXCEPT ![t] = IF IsZero(l.temperature) THEN "loop"
                                      ELSE "return"]
    /\ UNCHANGED <<call, ret, bodies, origin>>

\* One pass of the while loop's body.
Iterate(t) ==
    /\ pc[t] = "loop"
    /\ LoopGuard(loc[Slot(t)])
    /\ LET l == NewtonStep(loc[Slot(t)], call[t].resistance)
       IN  /\ loc' = [loc EXCEPT ![Slot(t)] = IterationEnd(l)]
           /\ pc' = [pc EXCEPT ![t] = IF Converged(l) THEN "return" ELSE "loop"]
    /\ bodies' = [bodies EXCEPT ![t] = bodies[t] + 1]
    /\ UNCHANGED <<call, ret, origin>>

\* The while condition fails: the loop ends without a break.
LoopExit(t) ==
    /\ pc[t] = "loop"
    /\ ~LoopGuard(loc[Slot(t)])
    /\ pc' = [pc EXCEPT ![t] = "return"]
    /\ UNCHANGED <<call, loc, ret, bodies, origin>>

\* return resistance;  return temperature;
Return(t) ==
    /\ pc[t] = "return"
    /\ ret' = [ret EXCEPT ![t] =
                  IF call[t].fn = "RTD_CalculateResistance"
                  THEN loc[Slot(t)].resistance ELSE loc[Slot(t)].temperature]
    /\ pc' = [pc EXCEPT ![t] = "done"]
    /\ UNCHANGED <<call, loc, bodies, origin>>

Next ==
    \/ CallResistance(1)
    \/ CallTemperature(1)
    \/ RoundTrip(1)
    \/ Resistance(1)
    \/ Validate(1)
    \/ Iterate(1)
    \/ LoopExit(1)
    \/ Return(1)

\* Concurrent callers.  Every call in ConcForward and ConcInverse converges
\* well before max_iterations, so the loop is always left through the
\* convergence break and LoopExit is never enabled; it is exercised under
\* Spec.
NextConc ==
    \/ \E t \in 1..NThreads : CallConc(t)
    \/ \E t \in 1..NThreads : Resistance(t)
    \/ \E t \in 1..NThreads : Validate(t)
    \/ \E t \in 1..NThreads : Iterate(t)
    \/ \E t \in 1..NThreads : Return(t)

Spec == Init /\ [][Next]_vars

SpecConc == InitConc /\ [][NextConc]_vars

(***************************************************************************)
(* Properties.                                                             *)
(***************************************************************************)
IsResistanceCall(t) == call[t].fn = "RTD_CalculateResistance"
IsTemperatureCall(t) == call[t].fn = "RTD_CalculateTemperature"

Recognized == {50, 100, 200, 500, 1000}

\* |x - y| <= eps
Within(x, y, eps) == FLe(fabs(FSub(x, y)), eps)

\* lo <= x <= hi
Between(x, lo, hi) == FGe(x, lo) /\ FLe(x, hi)

\* The documented resistance band of each class, in tenths of an ohm.
MinR(class) ==
    CASE class = 50 -> 92 [] class = 100 -> 183 [] class = 200 -> 365
      [] class = 500 -> 915 [] class = 1000 -> 1825
MaxR(class) ==
    CASE class = 50 -> 1953 [] class = 100 -> 3906 [] class = 200 -> 7813
      [] class = 500 -> 19530 [] class = 1000 -> 39065

InBand(class, r) == Between(r, Dec(MinR(class), -1), Dec(MaxR(class), -1))

\* C1: a call of RTD_CalculateTemperature whose 1000 iterations all failed to
\* converge returns RTD_CONVERSION_FAILED.
C1_NonConvergenceFails ==
    \A t \in DOMAIN pc :
        (pc[t] = "done" /\ IsTemperatureCall(t) /\ loc[t].iteration = max_iterations)
            => FEq(ret[t], RTD_CONVERSION_FAILED)

C3_RejectedWithoutIterating ==
    \A t \in DOMAIN pc :
        (IsTemperatureCall(t) /\ pc[t] # "validate") =>
            IF \/ call[t].sensor_type \notin Recognized
               \/ ~InBand(call[t].sensor_type, call[t].resistance)
            THEN /\ bodies[t] = 0
                 /\ pc[t] \in {"return", "done"}
                 /\ pc[t] = "done" => FEq(ret[t], RTD_CONVERSION_FAILED)
            ELSE pc[t] = "loop" \/ bodies[t] >= 1

C3_Witness ==
    /\ pc[1] = "done" /\ IsTemperatureCall(1)
    /\ call[1].sensor_type = 100
    /\ FEq(call[1].resistance, Dec(182, -1))
    /\ bodies[1] = 0
    /\ FEq(ret[1], RTD_CONVERSION_FAILED)

\* C4: a round trip from a temperature T in [-200, 850] through
\* RTD_CalculateResistance and back, with the initial guess at or near T,
\* is not rejected, does not fail, and returns a value within 1e-6 of T.
C4_RoundTrip ==
    \A t \in DOMAIN pc :
        (/\ pc[t] = "done" /\ IsTemperatureCall(t)
         /\ Between(origin[t], Dec(-200, 0), Dec(850, 0))) =>
            /\ bodies[t] >= 1
            /\ ~FEq(ret[t], RTD_CONVERSION_FAILED)
            /\ Within(ret[t], origin[t], Dec(1, -6))

C4_Witness ==
    /\ pc[1] = "done" /\ IsTemperatureCall(1)
    /\ FEq(origin[1], Dec(-200, 0))
    /\ ~FEq(call[1].initial_temperature_estimate, origin[1])
    /\ bodies[1] >= 2
    /\ Within(ret[1], origin[1], Dec(1, -6))

\* C5 as stated: RTD_CalculateResistance(PT500, 438) is within 1e-2 of 1342.5.
C5_Original ==
    \A t \in DOMAIN pc :
        (/\ pc[t] = "done" /\ IsResistanceCall(t)
         /\ call[t].sensor_type = 500 /\ FEq(call[t].temperature, Dec(438, 0)))
            => Within(ret[t], Dec(13425, -1), Dec(1, -2))

\* C5: RTD_CalculateResistance(PT500, 438) is within 1e-2 of 1300.52, the
\* value of 500 * (1 + A * 438 + B * 438^2).
C5_KnownValue ==
    \A t \in DOMAIN pc :
        (/\ pc[t] = "done" /\ IsResistanceCall(t)
         /\ call[t].sensor_type = 500 /\ FEq(call[t].temperature, Dec(438, 0)))
            => Within(ret[t], Dec(130052, -2), Dec(1, -2))

C5_Witness ==
    /\ pc[1] = "done" /\ IsResistanceCall(1)
    /\ call[1].sensor_type = 500 /\ FEq(call[1].temperature, Dec(438, 0))
    /\ FGt(ret[1], Dec(1300, 0))

\* The analytic derivative of R0 * (1 + A*T + B*T^2) for T >= 0 and of
\* R0 * (1 + A*T + B*T^2 + C*(T - 100)*T^3) for T < 0.
AnalyticDerivative(r0, t) ==
    LET quad == FAdd(RTD_A_COEFFICIENT,
                     FMul(FMul(Dec(2, 0), RTD_B_COEFFICIENT), t))
        tsq  == FMul(t, t)
    IN  IF FGe(t, Zero) THEN FMul(r0, quad)
        ELSE FMul(r0,
                  FSub(FAdd(quad, FMul(FMul(Dec(4, 0), RTD_C_COEFFICIENT),
                                       FMul(tsq, t))),
                       FMul(FMul(Dec(300, 0), RTD_C_COEFFICIENT), tsq)))

\* C7: in every iteration the derivative_value computed is the analytic
\* derivative, at the estimate the iteration starts from, of the polynomial
\* of the same branch.
C7_AnalyticDerivative ==
    [][\A t \in DOMAIN pc :
          (pc[t] = "loop" /\ bodies'[t] = bodies[t] + 1 /\ IsFinite(loc[t].temperature_estimate)) =>
              Within(loc'[t].derivative_value,
                     AnalyticDerivative(loc[t].resistance_at_zero,
                                        loc[t].temperature_estimate),
                     FMul(Dec(1, -9), loc[t].resistance_at_zero))]_vars

\* C8 as stated: for a recognized class and -200.5 <= T <= 850.5 the value
\* RTD_CalculateResistance returns lies in the class's band.
C8_Original ==
    \A t \in DOMAIN pc :
        (/\ pc[t] = "done" /\ IsResistanceCall(t)
         /\ call[t].sensor_type \in Recognized
         /\ Between(call[t].temperature, Dec(-2005, -1), Dec(8505, -1)))
            => InBand(call[t].sensor_type, ret[t])

\* C8: for a recognized class and -200 <= T <= 850 the value
\* RTD_CalculateResistance returns lies in the class's band, and the inverse
\* function's validation does not reject it.
C8_ForwardInBand ==
    \A t \in DOMAIN pc :
        /\ (/\ pc[t] = "done" /\ IsResistanceCall(t)
            /\ call[t].sensor_type \in Recognized
            /\ Between(call[t].temperature, Dec(-200, 0), Dec(850, 0)))
               => InBand(call[t].sensor_type, ret[t])
        /\ (/\ IsTemperatureCall(t) /\ pc[t] # "validate"
            /\ Between(origin[t], Dec(-200, 0), Dec(850, 0)))
               => /\ ~FEq(loc[t].temperature, RTD_CONVERSION_FAILED)
                  /\ pc[t] = "loop" \/ bodies[t] >= 1

C8_Witness ==
    /\ IsTemperatureCall(1) /\ pc[1] = "loop" /\ bodies[1] = 0
    /\ call[1].sensor_type = 50
    /\ FEq(origin[1], Dec(-200, 0))
    /\ InBand(50, call[1].resistance)

\* C9: a value other than RTD_CONVERSION_FAILED that RTD_CalculateTemperature
\* returns lies in [-200.5, 850.5].
C9_ResultInDomain ==
    \A t \in DOMAIN pc :
        (/\ pc[t] = "done" /\ IsTemperatureCall(t)
         /\ ~FEq(ret[t], RTD_CONVERSION_FAILED))
            => Between(ret[t], Dec(-2005, -1), Dec(8505, -1))

\* The state part of C10.
C10_Bounded ==
    \A t \in DOMAIN pc :
        IsTemperatureCall(t) =>
            /\ loc[t].iteration \in 0..max_iterations
            /\ bodies[t] <= max_iterations
            /\ pc[t] = "validate" => (loc[t].iteration = 0 /\ bodies[t] = 0)
            /\ pc[t] = "loop" => bodies[t] = loc[t].iteration
            /\ (pc[t] \in {"return", "done"} /\ bodies[t] > 0) =>
                   \/ bodies[t] = loc[t].iteration + 1 /\ Converged(loc[t])
                   \/ bodies[t] = loc[t].iteration /\ loc[t].iteration = max_iterations

\* The step part of C10: what a step of the loop does to the counter.
C10_Step ==
    \A t \in DOMAIN pc :
        (pc[t] = "loop" /\ IsTemperatureCall(t)) =>
            IF loc[t].iteration < max_iterations
            THEN /\ bodies'[t] = bodies[t] + 1
                 /\ IF FLt(fabs(FSub(loc'[t].new_temperature_estimate,
                                     loc[t].temperature_estimate)), Dec(1, -8))
                    THEN pc'[t] = "return" /\ loc'[t].iteration = loc[t].iteration
                    ELSE pc'[t] = "loop" /\ loc'[t].iteration = loc[t].iteration + 1
            ELSE pc'[t] = "return" /\ bodies'[t] = bodies[t]

\* C10: the iteration counter starts at 0, grows by one per non-converged
\* iteration and never exceeds 1000; the loop is left at the first converged
\* iteration or when the counter reaches 1000, so at most 1000 bodies run.
C10_IterationCap == []C10_Bounded /\ [][C10_Step]_vars

C10_Witness ==
    /\ pc[1] = "done" /\ IsTemperatureCall(1)
    /\ bodies[1] = max_iterations /\ loc[1].iteration = max_iterations

\* What each call of the concurrent callers returns when it runs alone.
SoloResistance ==
    [in \in ConcForward |-> RTD_CalculateResistance(in[1], Dec(in[2], -1))]

SoloTemperature ==
    [in \in ConcInverse |->
        RTD_CalculateTemperature(in[1], Dec(in[2], -1), Dec(in[3], -1))]

\* C6: under every interleaving, each of the concurrent invocations returns
\* what the same call returns when it runs alone.
C6_Reentrant ==
    \A t \in DOMAIN pc :
        pc[t] = "done" =>
            /\ IsResistanceCall(t) =>
                   \E in \in ConcForward :
                       /\ call[t].sensor_type = in[1]
                       /\ call[t].temperature = Dec(in[2], -1)
                       /\ ret[t] = SoloResistance[in]
            /\ IsTemperatureCall(t) =>
                   \E in \in ConcInverse :
                       /\ call[t].sensor_type = in[1]
                       /\ call[t].resistance = Dec(in[2], -1)
                       /\ call[t].initial_temperature_estimate = Dec(in[3], -1)
                       /\ ret[t] = SoloTemperature[in]

C6_Witness ==
    /\ pc[1] = "done" /\ IsTemperatureCall(1) /\ bodies[1] >= 2
    /\ pc[2] = "loop" /\ bodies[2] >= 1

====
